---------------------------- MODULE Spec2Model ----------------------------
(***************************************************************************)
(* Bidding and auction-lifecycle engine of the E-bid marketplace.          *)
(*                                                                         *)
(* One auction row, its bids, and the handlers that write them:            *)
(*   - POST /api/bids            (backend/routes/bids.js)                  *)
(*   - AuctionScheduler          (backend/utils/scheduler.js)              *)
(*                                                                         *)
(* Money is counted in units of 50 cents, so that minBidIncrement (1.00)   *)
(* is 2 units, and time in units of 150 seconds, so that fiveMinutes       *)
(* (5 * 60 * 1000 ms) is 2 units.  The scheduler's                         *)
(* statements are modelled on the tables and columns they name             *)
(* (bids.user_id, proxy_bids, orders, auctions.final_price); bids.user_id  *)
(* is the bidder column.                                                   *)
(***************************************************************************)
EXTENDS Integers, Sequences, FiniteSets, TLC

(***************************************************************************)
(* Bounds of the model.                                                    *)
(***************************************************************************)
MaxAmount == 6
MaxBids == 3
MaxTime == 3

(***************************************************************************)
(* Values of the program.                                                  *)
(***************************************************************************)
NULL == -1
NoUser == "nobody"
Seller == "seller"
Bidders == {"u1", "u2"}
Users == {Seller} \cup Bidders
Requests == {"r1", "r2"}
Closers == {"c1", "c2"}
Manual == {"c2"}

MinBidIncrement == 2
FiveMinutes == 2
StartingPrice == 1
InitialEndTime == 2

\* the listings the auction may have been created with
Listings ==
    {[starting_price |-> StartingPrice,
      buy_now_price |-> MaxAmount, reserve_price |-> NULL],
     [starting_price |-> StartingPrice,
      buy_now_price |-> NULL, reserve_price |-> MaxAmount - 1],
     [starting_price |-> StartingPrice + 1,
      buy_now_price |-> NULL, reserve_price |-> NULL]}

InitAuction(l) ==
    [seller_id |-> Seller,
     starting_price |-> l.starting_price,
     current_price |-> l.starting_price,
     reserve_price |-> l.reserve_price,
     buy_now_price |-> l.buy_now_price,
     status |-> "active",
     end_time |-> InitialEndTime,
     bid_count |-> 0,
     winner_id |-> NoUser,
     final_price |-> NULL]

NoRow ==
    InitAuction([starting_price |-> StartingPrice,
                 buy_now_price |-> NULL, reserve_price |-> NULL])

Min(x, y) == IF x <= y THEN x ELSE y
MaxOf(S) == CHOOSE x \in S : \A y \in S : y <= x

VARIABLES
    auction,    \* the auctions row
    bids,       \* the bids rows of the auction, in created_at order
    now,        \* the clock (NOW() and new Date())
    pc,         \* per request: "idle", or "locked" while its transaction holds the row
    rows,       \* per request: the auctions row its SELECT ... FOR UPDATE returned
    serial,     \* the rows obtained by running every handler atomically, in commit order
    proxy_bids, \* the proxy_bids rows of the auction
    proxying,   \* processProxyBids: the rows its SELECT returned, still to be looped over
    closing,    \* per closer: the row it selected and hands to endAuction
    orders,     \* the orders rows
    ended,      \* the auction_ended events emitted
    connected,  \* the sockets with an open connection
    rooms,      \* socket.io's rooms: the pairs <<socket, auctionId>> joined
    auctionRooms, \* socketHandler's Map: auctionId -> Set of viewer identities
    watchlist,  \* the watchlist rows: pairs <<user_id, auction_id>>
    watch_count \* the watch_count column of each auction

\* what the socket handler and the watchlist routes keep
liveVars == <<connected, rooms, auctionRooms, watchlist, watch_count>>

vars == <<auction, bids, now, pc, rows, serial,
          proxy_bids, proxying, closing, orders, ended, liveVars>>

schedVars == <<proxy_bids, proxying, closing, orders, ended>>

\* the auctions the sockets and the watchlist refer to
AuctionIds == {"a1", "a2"}

\* the sockets, and the userId the connection middleware gave each: two
\* connections of one user and an anonymous one
Sockets == {"s1", "s2", "s3"}
SocketUser == [s \in Sockets |-> IF s = "s3" THEN NoUser ELSE "u1"]

\* new Map()
EmptyMap == [a \in {} |-> {}]

\* no socket has connected, nobody watches anything
InitLive ==
    /\ connected = {}
    /\ rooms = {}
    /\ auctionRooms = EmptyMap
    /\ watchlist = {}
    /\ watch_count = [a \in AuctionIds |-> 0]

(***************************************************************************)
(* POST /api/bids                                                          *)
(***************************************************************************)
NoResponse == [kind |-> "none", status |-> 0, minimumBid |-> NULL, isWinning |-> FALSE]

Response(kind, status) == [NoResponse EXCEPT !.kind = kind, !.status = status]

\* body('amount').isFloat({ min: 0.01 }), body('maxBid').optional().isFloat({ min: 0.01 })
ValidRequest(rq) ==
    /\ rq.amount >= 1
    /\ rq.maxBid = NULL \/ rq.maxBid >= 1

\* WHERE a.id = $1 AND a.status = 'active' AND a.end_time > NOW()
ActiveAuction(a, t) == a.status = "active" /\ a.end_time > t

\* SELECT ... FOR UPDATE waits while another transaction holds the row
RowLockFree == \A r \in Requests : pc[r] # "locked"

RequiredMinBid_NoIncrement(current_price) == current_price
RequiredMinBid(current_price) == current_price + MinBidIncrement

WinningRows(b) == {i \in 1..Len(b) : b[i].is_winning}

\* max_bid || amount of the row read by ORDER BY created_at DESC LIMIT 1
CurrentMaxBid(b) ==
    LET currentHighestBid == b[MaxOf(WinningRows(b))]
    IN  IF currentHighestBid.max_bid # NULL THEN currentHighestBid.max_bid
        ELSE currentHighestBid.amount

NewMaxBid(rq) == IF rq.maxBid # NULL THEN rq.maxBid ELSE rq.amount

StillWinsPrice_NoCap(currentMaxBid, newMaxBid) == newMaxBid + MinBidIncrement
StillWinsPrice(currentMaxBid, newMaxBid) ==
    Min(newMaxBid + MinBidIncrement, currentMaxBid)

NewWinsPrice_Max(currentMaxBid, newMaxBid) == newMaxBid
NewWinsPrice(currentMaxBid, newMaxBid) ==
    Min(currentMaxBid + MinBidIncrement, newMaxBid)

\* timeRemaining < fiveMinutes
ShouldExtend(timeRemaining) == timeRemaining < FiveMinutes

NewEndTime_Now(end_time, t) == t
\* new Date(now.getTime() + fiveMinutes)
NewEndTime_FromEnd(end_time, t) == end_time + FiveMinutes
NewEndTime(end_time, t) == t + FiveMinutes

ClearWinning(b) == [i \in DOMAIN b |-> [b[i] EXCEPT !.is_winning = FALSE]]

BidRow(bidder, amount, max_bid, is_winning, is_proxy) ==
    [bidder_id |-> bidder, amount |-> amount, max_bid |-> max_bid,
     is_winning |-> is_winning, is_auto_bid |-> FALSE, is_proxy |-> is_proxy]

EndedEvent(status, winnerId, finalPrice, type) ==
    [status |-> status, winnerId |-> winnerId, finalPrice |-> finalPrice, type |-> type]

\* io.emit('bid_placed', ...): the price computed, and bid_count and end_time
\* of the row the handler read
BidPlacedEvent(row, rq, newCurrentPrice, isWinning, t) ==
    [type |-> "bid_placed",
     bidderId |-> rq.bidderId,
     amount |-> rq.amount,
     currentPrice |-> newCurrentPrice,
     isWinning |-> isWinning,
     bidCount |-> row.bid_count + 1,
     timeRemaining |-> IF row.end_time - t > 0 THEN row.end_time - t ELSE 0]

\* the buy-now branch: the auction is sold at buy_now_price
BuyNow(row, a, b, rq, t) ==
    [auction |-> [a EXCEPT !.current_price = row.buy_now_price,
                           !.status = "sold",
                           !.winner_id = rq.bidderId,
                           !.end_time = t],
     bids |-> Append(b, BidRow(rq.bidderId, row.buy_now_price, NULL, TRUE, FALSE)),
     emitted |-> <<EndedEvent("sold", rq.bidderId, row.buy_now_price, "buy_now")>>,
     resp |-> [Response("buy_now", 200) EXCEPT !.isWinning = TRUE]]

\* proxy resolution, anti-snipe extension and the insert of the new bid
NormalBid(row, a, b, rq, t) ==
    LET hasWinner == WinningRows(b) # {}
        stillWins == hasWinner /\ NewMaxBid(rq) <= CurrentMaxBid(b)
        newCurrentPrice ==
            IF ~hasWinner THEN rq.amount
            ELSE IF stillWins THEN StillWinsPrice(CurrentMaxBid(b), NewMaxBid(rq))
            ELSE NewWinsPrice(CurrentMaxBid(b), NewMaxBid(rq))
        isWinning == ~stillWins
        b1 == IF hasWinner /\ ~stillWins THEN ClearWinning(b) ELSE b
        a1 == [a EXCEPT !.current_price = newCurrentPrice,
                        !.bid_count = IF stillWins THEN @ ELSE @ + 1]
        a2 == IF ShouldExtend(row.end_time - t)
              THEN [a1 EXCEPT !.end_time = NewEndTime(row.end_time, t)]
              ELSE a1
    IN  [auction |-> a2,
         bids |-> Append(b1, BidRow(rq.bidderId, rq.amount, NewMaxBid(rq), isWinning, FALSE)),
         emitted |-> <<BidPlacedEvent(row, rq, newCurrentPrice, isWinning, t)>>,
         resp |-> [Response("placed", 200) EXCEPT !.isWinning = isWinning]]

ApplyBid_BuyNowFirst(row, a, b, rq, t) ==
    IF row.buy_now_price # NULL /\ rq.amount >= row.buy_now_price
    THEN BuyNow(row, a, b, rq, t)
    ELSE IF row.seller_id = rq.bidderId
    THEN [auction |-> a, bids |-> b, emitted |-> <<>>, resp |-> Response("own_auction", 400)]
    ELSE IF rq.amount < RequiredMinBid(row.current_price)
    THEN [auction |-> a, bids |-> b, emitted |-> <<>>, resp |-> Response("min_bid", 400)]
    ELSE NormalBid(row, a, b, rq, t)
\* the handler from the seller check to COMMIT: row is the auction as the
\* handler read it, a and b are the stored rows its statements act on
ApplyBid(row, a, b, rq, t) ==
    IF row.seller_id = rq.bidderId
    THEN [auction |-> a, bids |-> b, emitted |-> <<>>, resp |-> Response("own_auction", 400)]
    ELSE IF rq.amount < RequiredMinBid(row.current_price)
    THEN [auction |-> a, bids |-> b, emitted |-> <<>>,
          resp |-> [Response("min_bid", 400) EXCEPT
                        !.minimumBid = RequiredMinBid(row.current_price)]]
    ELSE IF row.buy_now_price # NULL /\ rq.amount >= row.buy_now_price
    THEN BuyNow(row, a, b, rq, t)
    ELSE NormalBid(row, a, b, rq, t)

\* the whole handler run on the stored rows a and b at time t
HandleBid(a, b, rq, t) ==
    IF ~ValidRequest(rq)
    THEN [auction |-> a, bids |-> b, emitted |-> <<>>, resp |-> Response("validation", 400)]
    ELSE IF ~ActiveAuction(a, t)
    THEN [auction |-> a, bids |-> b, emitted |-> <<>>, resp |-> Response("not_found", 404)]
    ELSE ApplyBid(a, a, b, rq, t)

SerialPlaceBid(s, rq, t) ==
    LET out == HandleBid(s.auction, s.bids, rq, t)
    IN  [auction |-> out.auction, bids |-> out.bids]

\* the request bodies tried: any amount up to MaxAmount, and maxBid absent,
\* below every acceptable amount, or at the top of the range
RequestBodies ==
    [bidderId : Users, amount : 0..MaxAmount,
     maxBid : {NULL, 1, MaxAmount - 1, MaxAmount}]

Accepted(out) == out.resp.status = 200

\* POST /api/bids with body rq, accepted.  The handler holds the auction row
\* from its SELECT ... FOR UPDATE to COMMIT, so it runs as one step here;
\* PlaceBidLock and PlaceBidCommit below are the same handler with the row
\* lock spelled out.
PlaceBid(rq) ==
    /\ Len(bids) < MaxBids
    /\ LET out == HandleBid(auction, bids, rq, now)
       IN  /\ Accepted(out)
           /\ auction' = out.auction
           /\ bids' = out.bids
           /\ ended' = IF out.resp.kind = "buy_now"
                        THEN Append(ended, EndedEvent("sold", rq.bidderId,
                                                      auction.buy_now_price, "buy_now"))
                        ELSE ended
           /\ serial' = [auction |-> out.auction, bids |-> out.bids]
    /\ UNCHANGED <<now, pc, rows, proxy_bids, proxying, closing, orders>>
    /\ UNCHANGED liveVars

\* POST /api/bids refused (400 or 404): ROLLBACK, nothing is written
PlaceBidRefused ==
    /\ (\E rq \in RequestBodies : ~Accepted(HandleBid(auction, bids, rq, now))) = TRUE
    /\ UNCHANGED vars

\* a request that fails validation (400) or finds no active row (404)
\* returns before it holds the row
PlaceBidEarly(r) ==
    /\ pc[r] = "idle"
    /\ (\E rq \in RequestBodies :
          HandleBid(auction, bids, rq, now).resp.kind \in {"validation", "not_found"}) = TRUE
    /\ UNCHANGED vars

\* BEGIN and SELECT ... FOR UPDATE: the transaction now holds the row
PlaceBidLock(r) ==
    /\ pc[r] = "idle"
    /\ Len(bids) < MaxBids
    /\ ActiveAuction(auction, now)
    /\ RowLockFree
    /\ pc' = [pc EXCEPT ![r] = "locked"]
    /\ rows' = [rows EXCEPT ![r] = auction]
    /\ UNCHANGED <<auction, bids, now, serial, schedVars>>
    /\ UNCHANGED liveVars

\* the rest of the handler, for the request body rq, up to COMMIT (or
\* ROLLBACK), the event and the response
PlaceBidRun(r, rq) ==
    /\ pc[r] = "locked"
    /\ ValidRequest(rq)
    /\ LET out == ApplyBid(rows[r], auction, bids, rq, now)
       IN  /\ auction' = out.auction
           /\ bids' = out.bids
           /\ ended' = IF out.resp.kind = "buy_now"
                        THEN Append(ended, EndedEvent("sold", rq.bidderId,
                                                      rows[r].buy_now_price, "buy_now"))
                        ELSE ended
    /\ serial' = SerialPlaceBid(serial, rq, now)
    /\ pc' = [pc EXCEPT ![r] = "idle"]
    /\ rows' = [rows EXCEPT ![r] = NoRow]
    /\ UNCHANGED <<now, proxy_bids, proxying, closing, orders>>
    /\ UNCHANGED liveVars

PlaceBidCommit(r) == \E rq \in RequestBodies : PlaceBidRun(r, rq)

(***************************************************************************)
(* AuctionScheduler                                                        *)
(***************************************************************************)
RECURSIVE Digits(_)
Digits(n) == IF n < 10 THEN <<n>> ELSE Append(Digits(n \div 10), n % 10)

\* the string node-postgres returns for a DECIMAL(10,2) column holding n units
\* of 50 cents ("10.50" for 21), as its character codes
DecimalString(n) ==
    LET whole == Digits(n \div 2)
    IN  [i \in 1..Len(whole) |-> 48 + whole[i]]
            \o <<46>> \o (IF n % 2 = 0 THEN <<48, 48>> ELSE <<53, 48>>)

\* x >= y on two such strings ("150.00" >= "200.00"): the first differing
\* character decides, and a proper prefix is the smaller string
StringGE(x, y) ==
    LET dx == DecimalString(x)
        dy == DecimalString(y)
        n == Min(Len(dx), Len(dy))
        diff == {i \in 1..n : dx[i] # dy[i]}
    IN  IF diff # {}
        THEN LET i == CHOOSE j \in diff : \A k \in diff : j <= k
             IN  dx[i] > dy[i]
        ELSE Len(dx) >= Len(dy)

\* ORDER BY amount DESC, created_at ASC LIMIT 1
HighestBid(b) ==
    LET top == {i \in 1..Len(b) : \A j \in 1..Len(b) : b[j].amount <= b[i].amount}
    IN  b[CHOOSE i \in top : \A j \in top : i <= j]

NoClosing == [pc |-> "idle", winner_id |-> NoUser, winning_bid |-> NULL]

\* the row of the auction the SELECT of processEndingAuctions returns, with
\* the winner_id and winning_bid of its subqueries
SelectedRow(b) ==
    IF b = <<>> THEN [NoClosing EXCEPT !.pc = "ending"]
    ELSE [pc |-> "ending",
          winner_id |-> HighestBid(b).bidder_id,
          winning_bid |-> HighestBid(b).amount]

\* WHERE a.status = 'active' AND a.end_time <= NOW()
Due_AnyStatus(a, t) == a.end_time <= t
Due(a, t) == a.status = "active" /\ a.end_time <= t

\* processEndingAuctions: the SELECT finds the auction due
ProcessEndingAuctions(w) ==
    /\ closing[w].pc = "idle"
    /\ Due(auction, now)
    /\ closing' = [closing EXCEPT ![w] = SelectedRow(bids)]
    /\ UNCHANGED <<auction, bids, now, pc, rows, serial, proxy_bids, proxying,
                   orders, ended>>
    /\ UNCHANGED liveVars

\* processAuctionEnding: SELECT * FROM auctions finds the auction active; the
\* row has the auction's own winner_id and no winning_bid
ProcessAuctionEnding(w) ==
    /\ w \in Manual
    /\ closing[w].pc = "idle"
    /\ auction.status = "active"
    /\ closing' = [closing EXCEPT ![w] =
                     [pc |-> "ending", winner_id |-> auction.winner_id,
                      winning_bid |-> NULL]]
    /\ UNCHANGED <<auction, bids, now, pc, rows, serial, proxy_bids, proxying,
                   orders, ended>>
    /\ UNCHANGED liveVars

\* the status, winnerId and finalPrice endAuction decides for the row it is given
EndDecision(c, a) ==
    IF /\ c.winner_id # NoUser
       /\ c.winning_bid # NULL
       /\ a.reserve_price = NULL \/ StringGE(c.winning_bid, a.reserve_price)
    THEN [status |-> "completed", winnerId |-> c.winner_id, finalPrice |-> c.winning_bid]
    ELSE [status |-> "ended", winnerId |-> NoUser, finalPrice |-> a.starting_price]

EndUpdate(a, d) ==
    [a EXCEPT !.status = d.status, !.winner_id = d.winnerId, !.final_price = d.finalPrice]

\* what endAuction writes for the selected row c: the auction after its
\* UPDATE, the orders after its INSERT, the events after its publish
CloseEffect(c, a, o, e) ==
    LET d == EndDecision(c, a)
    IN  [auction |-> EndUpdate(a, d),
         orders |-> IF d.status = "completed"
                    THEN Append(o, [seller_id |-> a.seller_id,
                                    buyer_id |-> d.winnerId,
                                    amount |-> d.finalPrice])
                    ELSE o,
         ended |-> Append(e, EndedEvent(d.status, d.winnerId, d.finalPrice,
                                        "scheduler"))]

\* processEndingAuctions run from its SELECT to the end of its loop with
\* nothing else running, on the auction, orders and events of s
Sweep(s, b, t) ==
    IF Due(s.auction, t)
    THEN CloseEffect(SelectedRow(b), s.auction, s.orders, s.ended)
    ELSE s

\* endAuction: the UPDATE of the auction, the order, the auction_ended event
EndAuction(w) ==
    /\ closing[w].pc = "ending"
    /\ LET out == CloseEffect(closing[w], auction, orders, ended)
       IN  /\ auction' = out.auction
           /\ serial' = [auction |-> out.auction, bids |-> bids]
           /\ orders' = out.orders
           /\ ended' = out.ended
    /\ closing' = [closing EXCEPT ![w] = NoClosing]
    /\ UNCHANGED <<bids, now, pc, rows, proxy_bids, proxying>>
    /\ UNCHANGED liveVars

\* endAuction when a statement after the UPDATE throws: the catch block sends
\* ROLLBACK.  BEGIN, UPDATE and ROLLBACK each go through pool.query, which
\* takes any idle connection: the UPDATE is undone when the three went to one
\* connection and stays committed otherwise.  No order and no event.
EndAuctionFails(w) ==
    /\ closing[w].pc = "ending"
    /\ \E undone \in BOOLEAN :
          LET a1 == IF undone THEN auction
                    ELSE EndUpdate(auction, EndDecision(closing[w], auction))
          IN  /\ auction' = a1
              /\ serial' = [auction |-> a1, bids |-> bids]
    /\ closing' = [closing EXCEPT ![w] = NoClosing]
    /\ UNCHANGED <<bids, now, pc, rows, proxy_bids, proxying, orders, ended>>
    /\ UNCHANGED liveVars

NoProxying == [pc |-> "idle", current_price |-> 0, highest_bidder |-> NoUser]

\* processProxyBids: the SELECT returns the registration with the auction's
\* price and highest bidder as of now
ProcessProxyBids ==
    /\ proxying.pc = "idle"
    /\ Len(bids) < MaxBids
    /\ proxy_bids # <<>>
    /\ proxy_bids[1].is_active
    /\ ActiveAuction(auction, now)
    /\ proxy_bids[1].max_amount > auction.current_price
    /\ proxying' = [pc |-> "selected",
                    current_price |-> auction.current_price,
                    highest_bidder |-> IF bids = <<>> THEN NoUser
                                       ELSE HighestBid(bids).bidder_id]
    /\ UNCHANGED <<auction, bids, now, pc, rows, serial, proxy_bids, closing,
                   orders, ended>>
    /\ UNCHANGED liveVars

\* the loop body for the selected row: skip it, or executeProxyBid
ProxyBidRow ==
    /\ proxying.pc = "selected"
    /\ LET pb == proxy_bids[1]
           nextBidAmount == proxying.current_price + pb.increment
       IN  IF proxying.highest_bidder # pb.user_id /\ nextBidAmount <= pb.max_amount
           THEN /\ bids' = Append(bids, BidRow(pb.user_id, nextBidAmount, NULL, FALSE, TRUE))
                /\ auction' = [auction EXCEPT !.current_price = nextBidAmount]
                /\ serial' = [auction |-> auction', bids |-> bids']
                /\ proxy_bids' = IF nextBidAmount >= pb.max_amount
                                 THEN <<[pb EXCEPT !.is_active = FALSE]>>
                                 ELSE proxy_bids
           ELSE UNCHANGED <<bids, auction, serial, proxy_bids>>
    /\ proxying' = NoProxying
    /\ UNCHANGED <<now, pc, rows, closing, orders, ended>>
    /\ UNCHANGED liveVars

\* the proxy_bids table the scheduler finds
ProxyTables ==
    {<<[user_id |-> "u2", max_amount |-> 4, increment |-> MinBidIncrement,
       is_active |-> TRUE]>>}

\* the clock advances while the auction is active (nothing reads it
\* afterwards); a transaction holding the row is local computation and ends
\* within the time unit
Tick ==
    /\ now < MaxTime
    /\ auction.status = "active"
    /\ \A r \in Requests : pc[r] = "idle"
    /\ now' = now + 1
    /\ UNCHANGED <<auction, bids, pc, rows, serial, schedVars>>
    /\ UNCHANGED liveVars

Init ==
    /\ \E l \in Listings : auction = InitAuction(l)
    /\ bids = <<>>
    /\ now = 0
    /\ pc = [r \in Requests |-> "idle"]
    /\ rows = [r \in Requests |-> NoRow]
    /\ serial = [auction |-> auction, bids |-> bids]
    /\ proxy_bids \in ProxyTables
    /\ proxying = NoProxying
    /\ closing = [w \in Closers |-> NoClosing]
    /\ orders = <<>>
    /\ ended = <<>>
    /\ InitLive

\* the handlers and the scheduler: each handler holds the row lock from its
\* SELECT to its COMMIT, and is one step
Next ==
    \/ \E rq \in RequestBodies : PlaceBid(rq)
    \/ PlaceBidRefused
    \/ \E w \in Closers : ProcessEndingAuctions(w)
    \/ \E w \in Closers : ProcessAuctionEnding(w)
    \/ \E w \in Closers : EndAuction(w)
    \/ ProcessProxyBids
    \/ ProxyBidRow
    \/ Tick

Spec == Init /\ [][Next]_vars

\* concurrent POST /api/bids requests with the row lock spelled out
NextRequests ==
    \/ \E r \in Requests : PlaceBidEarly(r)
    \/ \E r \in Requests : PlaceBidLock(r)
    \/ \E r \in Requests : PlaceBidCommit(r)
    \/ Tick

SpecRequests == Init /\ [][NextRequests]_vars

(***************************************************************************)
(* The scheduler's close on its own: auctions that took up to two bids of  *)
(* amounts up to MaxCloseAmount before the sweeps start.                   *)
(***************************************************************************)
MaxCloseAmount == 20

CloseAmounts == {3, 5, MaxCloseAmount}

CloseListings ==
    {[starting_price |-> StartingPrice, buy_now_price |-> NULL, reserve_price |-> r] :
        r \in {NULL, 4}}

CloseRequests == [bidderId : Bidders, amount : CloseAmounts, maxBid : {NULL}]

CloseHistories ==
    {<<>>} \cup {<<x>> : x \in CloseRequests}
           \cup {<<x, y>> : x \in CloseRequests, y \in CloseRequests}

\* the rows after the requests of h were handled one after the other
RECURSIVE Replay(_, _)
Replay(s, h) ==
    IF h = <<>> THEN s ELSE Replay(SerialPlaceBid(s, Head(h), 0), Tail(h))

InitClose ==
    /\ \E l \in CloseListings, h \in CloseHistories :
          LET s == Replay([auction |-> InitAuction(l), bids |-> <<>>], h)
          IN  auction = s.auction /\ bids = s.bids /\ serial = s
    /\ now = 0
    /\ pc = [r \in Requests |-> "idle"]
    /\ rows = [r \in Requests |-> NoRow]
    /\ proxy_bids = <<>>
    /\ proxying = NoProxying
    /\ closing = [w \in Closers |-> NoClosing]
    /\ orders = <<>>
    /\ ended = <<>>
    /\ InitLive

NextClose ==
    \/ \E w \in Closers : ProcessEndingAuctions(w)
    \/ \E w \in Closers : EndAuction(w)
    \/ \E w \in Closers : EndAuctionFails(w)
    \/ Tick

SpecClose == InitClose /\ [][NextClose]_vars

(***************************************************************************)
(* Statements that throw: POST /api/bids and endAuction with their catch   *)
(* blocks.                                                                 *)
(***************************************************************************)
\* where POST /api/bids throws: at a statement of the transaction (the INSERT
\* of the bid stands for any of them), or at the INSERT of the seller's
\* notification, which follows COMMIT.  cache.del catches its own errors.
FailingSteps == {"insert_bid", "notification"}

\* POST /api/bids when the statement `step` throws: the catch block sends
\* ROLLBACK and answers 500 'Failed to place bid'.  Before COMMIT the ROLLBACK
\* undoes the transaction; after COMMIT it finds no transaction, and the bid
\* and the bid_placed event stay.  The buy-now branch returns before the
\* notification.
FailBid(a, b, rq, t, step) ==
    LET out == HandleBid(a, b, rq, t)
        failed == Response("failed", 500)
    IN  IF step = "notification" /\ out.resp.kind = "placed"
        THEN [out EXCEPT !.resp = failed]
        ELSE [auction |-> a, bids |-> b, emitted |-> <<>>, resp |-> failed]

PlaceBidFails(rq, step) ==
    /\ Len(bids) < MaxBids
    /\ step = "notification" => HandleBid(auction, bids, rq, now).resp.kind = "placed"
    /\ LET out == FailBid(auction, bids, rq, now, step)
       IN  /\ auction' = out.auction
           /\ bids' = out.bids
           /\ serial' = [auction |-> out.auction, bids |-> out.bids]
    /\ UNCHANGED <<now, pc, rows, proxy_bids, proxying, closing, orders, ended>>
    /\ UNCHANGED liveVars

\* bidding and the minute sweep, with the statements that may throw
NextFailures ==
    \/ \E rq \in RequestBodies : PlaceBid(rq)
    \/ \E rq \in RequestBodies, step \in FailingSteps : PlaceBidFails(rq, step)
    \/ \E w \in Closers \ Manual : ProcessEndingAuctions(w)
    \/ \E w \in Closers \ Manual : EndAuction(w)
    \/ \E w \in Closers \ Manual : EndAuctionFails(w)
    \/ Tick

SpecFailures == Init /\ [][NextFailures]_vars

(***************************************************************************)
(* socketHandler: the viewers of each auction room                         *)
(***************************************************************************)
\* socket.userId || socket.id
Identity(s) == IF SocketUser[s] # NoUser THEN SocketUser[s] ELSE s

\* auctionRooms.get(a), the empty set when the Map has no such key
Viewers(m, a) == IF a \in DOMAIN m THEN m[a] ELSE {}

\* Map.set and Map.delete
MapSet(m, a, v) == [x \in DOMAIN m \cup {a} |-> IF x = a THEN v ELSE m[x]]
MapDelete(m, a) == [x \in DOMAIN m \ {a} |-> m[x]]

\* io.on('connection')
Connect(s) ==
    /\ s \notin connected
    /\ connected' = connected \cup {s}
    /\ UNCHANGED <<auction, bids, now, pc, rows, serial, schedVars,
                   rooms, auctionRooms, watchlist, watch_count>>

\* auctionRooms after leave_auction: the identity is deleted from the set, and
\* the key with it when the set becomes empty
LeaveRoom(m, s, a) ==
    IF a \in DOMAIN m
    THEN IF m[a] \ {Identity(s)} = {}
         THEN MapDelete(m, a)
         ELSE MapSet(m, a, m[a] \ {Identity(s)})
    ELSE m

\* socket.on('join_auction')
JoinAuction(s, a) ==
    /\ s \in connected
    /\ rooms' = rooms \cup {<<s, a>>}
    /\ auctionRooms' = MapSet(auctionRooms, a, Viewers(auctionRooms, a) \cup {Identity(s)})
    /\ UNCHANGED <<auction, bids, now, pc, rows, serial, schedVars,
                   connected, watchlist, watch_count>>

\* socket.on('leave_auction')
LeaveAuction(s, a) ==
    /\ s \in connected
    /\ rooms' = rooms \ {<<s, a>>}
    /\ auctionRooms' = LeaveRoom(auctionRooms, s, a)
    /\ UNCHANGED <<auction, bids, now, pc, rows, serial, schedVars,
                   connected, watchlist, watch_count>>

\* socket.on('disconnect'): socket.io has taken the socket out of its rooms;
\* the handler deletes the identity from every set that has it, and the key
\* when that set becomes empty
Disconnect(s) ==
    /\ s \in connected
    /\ connected' = connected \ {s}
    /\ rooms' = {p \in rooms : p[1] # s}
    /\ auctionRooms' =
          [a \in {x \in DOMAIN auctionRooms : auctionRooms[x] # {Identity(s)}} |->
              auctionRooms[a] \ {Identity(s)}]
    /\ UNCHANGED <<auction, bids, now, pc, rows, serial, schedVars,
                   watchlist, watch_count>>

NextSockets ==
    \/ \E s \in Sockets : Connect(s)
    \/ \E s \in Sockets, a \in AuctionIds : JoinAuction(s, a)
    \/ \E s \in Sockets, a \in AuctionIds : LeaveAuction(s, a)
    \/ \E s \in Sockets : Disconnect(s)

SpecSockets == Init /\ [][NextSockets]_vars

(***************************************************************************)
(* The watchlist: socket events and REST routes.  Each handler is one      *)
(* step; all auctions are rows like `auction`.                             *)
(***************************************************************************)
MaxWatch == 3

\* GREATEST(watch_count - 1, 0)
Greatest(x, y) == IF x >= y THEN x ELSE y

\* socket.on('watch_auction'): INSERT ... ON CONFLICT DO NOTHING, then
\* watch_count = watch_count + 1 whether or not a row was inserted
WatchAuction(s, a) ==
    /\ s \in connected
    /\ watch_count[a] < MaxWatch
    /\ IF SocketUser[s] = NoUser
       THEN UNCHANGED <<watchlist, watch_count>>
       ELSE /\ watchlist' = watchlist \cup {<<SocketUser[s], a>>}
            /\ watch_count' = [watch_count EXCEPT ![a] = @ + 1]
    /\ UNCHANGED <<auction, bids, now, pc, rows, serial, schedVars,
                   connected, rooms, auctionRooms>>

\* socket.on('unwatch_auction'): DELETE, and the decrement when rowCount > 0
UnwatchAuction(s, a) ==
    /\ s \in connected
    /\ IF SocketUser[s] # NoUser /\ <<SocketUser[s], a>> \in watchlist
       THEN /\ watchlist' = watchlist \ {<<SocketUser[s], a>>}
            /\ watch_count' = [watch_count EXCEPT ![a] = Greatest(@ - 1, 0)]
       ELSE UNCHANGED <<watchlist, watch_count>>
    /\ UNCHANGED <<auction, bids, now, pc, rows, serial, schedVars,
                   connected, rooms, auctionRooms>>

\* POST /api/watchlist: 404 unless the auction is active, 400 for the seller,
\* 409 when the row exists; else the row and watch_count + 1
AddToWatchlist(u, a) ==
    /\ watch_count[a] < MaxWatch
    /\ IF /\ auction.status = "active"
          /\ auction.seller_id # u
          /\ <<u, a>> \notin watchlist
       THEN /\ watchlist' = watchlist \cup {<<u, a>>}
            /\ watch_count' = [watch_count EXCEPT ![a] = @ + 1]
       ELSE UNCHANGED <<watchlist, watch_count>>
    /\ UNCHANGED <<auction, bids, now, pc, rows, serial, schedVars,
                   connected, rooms, auctionRooms>>

\* DELETE /api/watchlist/:auctionId: 404 when there is no row; else the row
\* goes and watch_count = GREATEST(watch_count - 1, 0)
RemoveFromWatchlist(u, a) ==
    /\ IF <<u, a>> \in watchlist
       THEN /\ watchlist' = watchlist \ {<<u, a>>}
            /\ watch_count' = [watch_count EXCEPT ![a] = Greatest(@ - 1, 0)]
       ELSE UNCHANGED <<watchlist, watch_count>>
    /\ UNCHANGED <<auction, bids, now, pc, rows, serial, schedVars,
                   connected, rooms, auctionRooms>>

NextWatchlist ==
    \/ \E s \in Sockets : Connect(s)
    \/ \E s \in Sockets, a \in AuctionIds : WatchAuction(s, a)
    \/ \E s \in Sockets, a \in AuctionIds : UnwatchAuction(s, a)
    \/ \E u \in Users, a \in AuctionIds : AddToWatchlist(u, a)
    \/ \E u \in Users, a \in AuctionIds : RemoveFromWatchlist(u, a)

SpecWatchlist == Init /\ [][NextWatchlist]_vars

(***************************************************************************)
(* Properties                                                              *)
(***************************************************************************)
AllIdle == \A r \in Requests : pc[r] = "idle"

LastBid(b) == b[Len(b)]

\* the stored rows equal the rows of the serial run whenever no request is
\* in flight
RequestsSerializable ==
    AllIdle => auction = serial.auction /\ bids = serial.bids

\* C1: once concurrent POST /api/bids requests on one auction have all
\* completed, the auction and its bids are what running the requests one
\* after another in commit order gives, and no two bids are both marked
\* winning.
C1_SerialOneWinner ==
    AllIdle =>
        /\ auction = serial.auction
        /\ bids = serial.bids
        /\ Cardinality(WinningRows(bids)) <= 1

\* C2: an active auction has at most one bid marked winning, and exactly one
\* as soon as it has a bid, after POST /api/bids and after executeProxyBid.
C2_OneWinningWhileActive ==
    auction.status = "active" =>
        /\ Cardinality(WinningRows(bids)) <= 1
        /\ bids # <<>> => Cardinality(WinningRows(bids)) = 1

\* C3: the amounts of the bids recorded as winning never decrease in
\* creation order.  The bid marked winning before a step is the latest bid
\* that was recorded as winning, so it is enough that every bid recorded as
\* winning has at least that bid's amount.
C3_WinningAmountsNonDecreasing ==
    [][(/\ Len(bids') = Len(bids) + 1
        /\ LastBid(bids').is_winning
        /\ WinningRows(bids) # {})
       => LastBid(bids').amount >= bids[MaxOf(WinningRows(bids))].amount]_vars

\* C4: once the auction is not active or its end_time is not in the future,
\* no step records a bid or changes current_price.
C4_NoBidOnceClosed ==
    [][~ActiveAuction(auction, now)
       => bids' = bids /\ auction'.current_price = auction.current_price]_vars

OtherBidder(rq) == bids[MaxOf(WinningRows(bids))].bidder_id # rq.bidderId

\* the request asks less than the auction's buy-now price, if it has one
BelowBuyNow(rq) ==
    auction.buy_now_price = NULL \/ rq.amount < auction.buy_now_price

\* C6: while a winner holds maximum H, an accepted POST /api/bids below any
\* buy-now price whose maximum M is above H makes the new bid the only
\* winning one and sets current_price to min(M, H + increment).
C6_HigherMaxTakesOver ==
    [][Len(bids') > Len(bids) =>
        \A rq \in RequestBodies :
            (/\ PlaceBid(rq)
             /\ WinningRows(bids) # {}
             /\ OtherBidder(rq)
             /\ BelowBuyNow(rq)
             /\ NewMaxBid(rq) > CurrentMaxBid(bids))
            => /\ LastBid(bids').bidder_id = rq.bidderId
               /\ WinningRows(bids') = {Len(bids')}
               /\ auction'.current_price =
                      Min(NewMaxBid(rq), CurrentMaxBid(bids) + MinBidIncrement)]_vars

\* a bid with the greater maximum has taken over at its own maximum, less
\* than one increment above the maximum it beat
C6_Witness ==
    /\ Len(bids) >= 2
    /\ auction.status = "active"
    /\ LET a == bids[Len(bids) - 1]
           b == LastBid(bids)
       IN  /\ ~a.is_proxy /\ ~b.is_proxy
           /\ ~a.is_winning /\ b.is_winning
           /\ a.bidder_id # b.bidder_id
           /\ a.max_bid < b.max_bid
           /\ b.max_bid < a.max_bid + MinBidIncrement
           /\ auction.current_price = b.max_bid

\* C7, as stated: while a winner holds maximum H, every accepted POST
\* /api/bids whose maximum M is at most H leaves the winner winning, records
\* the new bid as not winning and sets current_price to min(H, M + increment).
C7_AnyLowerMaxLoses ==
    [][Len(bids') > Len(bids) =>
        \A rq \in RequestBodies :
            (/\ PlaceBid(rq)
             /\ WinningRows(bids) # {}
             /\ OtherBidder(rq)
             /\ NewMaxBid(rq) <= CurrentMaxBid(bids))
            => /\ WinningRows(bids') = WinningRows(bids)
               /\ ~LastBid(bids').is_winning
               /\ auction'.current_price =
                      Min(CurrentMaxBid(bids), NewMaxBid(rq) + MinBidIncrement)]_vars

\* C7: the same for the accepted requests that ask less than any buy-now
\* price.
C7_LowerMaxLoses ==
    [][Len(bids') > Len(bids) =>
        \A rq \in RequestBodies :
            (/\ PlaceBid(rq)
             /\ WinningRows(bids) # {}
             /\ OtherBidder(rq)
             /\ BelowBuyNow(rq)
             /\ NewMaxBid(rq) <= CurrentMaxBid(bids))
            => /\ WinningRows(bids') = WinningRows(bids)
               /\ ~LastBid(bids').is_winning
               /\ auction'.current_price =
                      Min(CurrentMaxBid(bids), NewMaxBid(rq) + MinBidIncrement)]_vars

\* a later bid tied the winner's maximum: the earlier bid still wins and the
\* price stands at that maximum
C7_Witness ==
    /\ Len(bids) >= 2
    /\ auction.status = "active"
    /\ LET a == bids[Len(bids) - 1]
           b == LastBid(bids)
       IN  /\ ~a.is_proxy /\ ~b.is_proxy
           /\ a.is_winning /\ ~b.is_winning
           /\ a.bidder_id # b.bidder_id
           /\ a.max_bid = b.max_bid
           /\ a.amount < a.max_bid
           /\ auction.current_price = a.max_bid

\* C8, as stated: every POST /api/bids on an active auction whose amount is
\* below current_price + increment is refused with the minimum-bid error
\* carrying that minimum, and changes nothing.
C8_AnyLowAmountRefused ==
    \A rq \in RequestBodies :
        (auction.status = "active" /\ rq.amount < auction.current_price + MinBidIncrement)
        => LET out == HandleBid(auction, bids, rq, now)
           IN  /\ out.resp.kind = "min_bid"
               /\ out.resp.status = 400
               /\ out.resp.minimumBid = auction.current_price + MinBidIncrement
               /\ out.auction = auction
               /\ out.bids = bids

\* C8: the same for the requests that pass validation and come from a bidder
\* other than the seller, while the auction's end_time is in the future.
C8_LowAmountRefused ==
    \A rq \in RequestBodies :
        (/\ auction.status = "active"
         /\ auction.end_time > now
         /\ ValidRequest(rq)
         /\ rq.bidderId # auction.seller_id
         /\ rq.amount < auction.current_price + MinBidIncrement)
        => LET out == HandleBid(auction, bids, rq, now)
           IN  /\ out.resp.kind = "min_bid"
               /\ out.resp.status = 400
               /\ out.resp.minimumBid = auction.current_price + MinBidIncrement
               /\ out.auction = auction
               /\ out.bids = bids

\* bids have raised the price, and an amount that was enough on the new
\* listing is now refused with the raised minimum
C8_Witness ==
    /\ ActiveAuction(auction, now)
    /\ WinningRows(bids) # {}
    /\ auction.current_price > auction.starting_price
    /\ \E rq \in RequestBodies :
          /\ ValidRequest(rq)
          /\ rq.bidderId # auction.seller_id
          /\ rq.amount >= auction.starting_price + MinBidIncrement
          /\ rq.amount < auction.current_price + MinBidIncrement
          /\ HandleBid(auction, bids, rq, now).resp.minimumBid
                 = auction.current_price + MinBidIncrement

\* C9: whatever bids came before, a valid POST /api/bids by a bidder other
\* than the seller with amount at or above buy_now_price sells the auction to
\* that bidder at buy_now_price; and once the auction is sold every POST
\* /api/bids is refused.
C9_BuyNowAlwaysSells ==
    /\ \A rq \in RequestBodies :
          (/\ ActiveAuction(auction, now)
           /\ auction.buy_now_price # NULL
           /\ ValidRequest(rq)
           /\ rq.bidderId # auction.seller_id
           /\ rq.amount >= auction.buy_now_price)
          => LET out == HandleBid(auction, bids, rq, now)
             IN  /\ Accepted(out)
                 /\ out.auction.status = "sold"
                 /\ out.auction.winner_id = rq.bidderId
                 /\ out.auction.current_price = auction.buy_now_price
    /\ auction.status = "sold" =>
          \A rq \in RequestBodies : ~Accepted(HandleBid(auction, bids, rq, now))

\* a step that records a bid of POST /api/bids
BidPlaced == Len(bids') = Len(bids) + 1 /\ ~LastBid(bids').is_proxy

\* end_time after an accepted bid: now + fiveMinutes when less than
\* fiveMinutes remained, unchanged otherwise
AntiSnipe ==
    IF auction.end_time - now < FiveMinutes
    THEN auction'.end_time = now + FiveMinutes
    ELSE auction'.end_time = auction.end_time

\* C10, as stated: every accepted bid of POST /api/bids sets end_time to now
\* + fiveMinutes when less than fiveMinutes remained and leaves it unchanged
\* otherwise; end_time changes in no other step.
C10_AnyBidExtends ==
    [][/\ BidPlaced => AntiSnipe
       /\ auction'.end_time # auction.end_time => BidPlaced]_vars

\* C10: the same for the accepted bids below any buy-now price (those that
\* leave the auction active).
C10_BidExtends ==
    [][/\ (BidPlaced /\ auction'.status = "active") => AntiSnipe
       /\ auction'.end_time # auction.end_time => BidPlaced]_vars

\* a bid accepted with less than fiveMinutes remaining has moved end_time
\* past the end_time of the listing
C10_Witness ==
    /\ auction.status = "active"
    /\ WinningRows(bids) # {}
    /\ now > 0
    /\ auction.end_time = now + FiveMinutes

\* C11: after the scheduler has closed the auction: with no bids, or with a
\* reserve_price above the highest bid amount, the auction is ended with no
\* winner; otherwise it is sold ('completed' is the status the scheduler
\* writes for a sale) to the bidder of the highest bid at that bid's amount.
C11_CloseDecision ==
    auction.status # "active" =>
        IF \/ bids = <<>>
           \/ auction.reserve_price # NULL
              /\ HighestBid(bids).amount < auction.reserve_price
        THEN auction.status = "ended" /\ auction.winner_id = NoUser
        ELSE /\ auction.status \in {"sold", "completed"}
             /\ auction.winner_id = HighestBid(bids).bidder_id
             /\ auction.final_price = HighestBid(bids).amount

\* C12: when the scheduler closes as sold an auction whose bids all came from
\* POST /api/bids, the winner_id it writes is the bidder of the bid marked
\* winning just before the close, and the final_price it writes is the
\* current_price just before the close.
C12_CloseAgreesWithBidding ==
    [][\A w \in Closers :
          (/\ EndAuction(w)
           /\ auction'.status = "completed"
           /\ \A i \in 1..Len(bids) : ~bids[i].is_proxy)
          => /\ WinningRows(bids) # {}
             /\ auction'.winner_id = bids[MaxOf(WinningRows(bids))].bidder_id
             /\ auction'.final_price = auction.current_price]_vars

\* C13: status only changes from active to sold, ended or cancelled
\* ('completed' is the status the scheduler writes for a sale), and once the
\* status is not active no step changes status, winner_id, current_price or
\* end_time.
C13_TerminalIsFinal ==
    [][/\ auction'.status # auction.status
          => /\ auction.status = "active"
             /\ auction'.status \in {"sold", "completed", "ended", "cancelled"}
       /\ auction.status # "active"
          => /\ auction'.status = auction.status
             /\ auction'.winner_id = auction.winner_id
             /\ auction'.current_price = auction.current_price
             /\ auction'.end_time = auction.end_time]_vars

\* C14: current_price never falls below starting_price.
C14_PriceAtLeastStart == auction.current_price >= auction.starting_price

\* C15: a POST /api/bids by the auction's seller is refused whatever its
\* amount and leaves the auction and its bids unchanged.
C15_SellerRefused ==
    \A rq \in RequestBodies :
        rq.bidderId = auction.seller_id
        => LET out == HandleBid(auction, bids, rq, now)
           IN  /\ ~Accepted(out)
               /\ out.auction = auction
               /\ out.bids = bids

\* the seller asks the buy-now price of an auction that has taken a bid, an
\* amount any other bidder would be sold the auction for, and is refused as
\* the seller
C15_Witness ==
    /\ ActiveAuction(auction, now)
    /\ bids # <<>>
    /\ auction.buy_now_price # NULL
    /\ \E rq \in RequestBodies :
          /\ rq.bidderId = auction.seller_id
          /\ rq.amount >= auction.buy_now_price
          /\ rq.amount >= auction.current_price + MinBidIncrement
          /\ HandleBid(auction, bids, rq, now).resp.kind = "own_auction"

\* C16: a sold auction ('sold' by buy-now, 'completed' by the scheduler) has
\* exactly one order, carrying its seller, its winner and its final price;
\* an auction ended without a sale has none.
C16_OneOrderPerSale ==
    /\ auction.status \in {"sold", "completed"}
       => /\ Len(orders) = 1
          /\ orders[1].seller_id = auction.seller_id
          /\ orders[1].buyer_id = auction.winner_id
          /\ orders[1].amount = IF auction.status = "sold"
                                THEN auction.current_price
                                ELSE auction.final_price
    /\ auction.status = "ended" => orders = <<>>

\* C17: the bid_placed event of an accepted bid carries the current_price
\* and bid_count the auction has after the bid, and the time from now to the
\* end_time it has after the bid.
C17_BidPlacedReportsResult ==
    [][Len(bids') > Len(bids) =>
        \A rq \in RequestBodies :
            PlaceBid(rq) =>
                LET emitted == HandleBid(auction, bids, rq, now).emitted
                IN  \A i \in DOMAIN emitted :
                        emitted[i].type = "bid_placed"
                        => /\ emitted[i].currentPrice = auction'.current_price
                           /\ emitted[i].bidCount = auction'.bid_count
                           /\ emitted[i].timeRemaining = auction'.end_time - now]_vars

\* C18: an accepted bid emits an auction_extended event carrying the new
\* end_time exactly when it has extended end_time.
C18_ExtensionAnnounced ==
    [][Len(bids') > Len(bids) =>
        \A rq \in RequestBodies :
            PlaceBid(rq) =>
                LET emitted == HandleBid(auction, bids, rq, now).emitted
                IN  auction'.end_time > auction.end_time
                    <=> \E i \in DOMAIN emitted :
                            /\ emitted[i].type = "auction_extended"
                            /\ emitted[i].newEndTime = auction'.end_time]_vars

\* C19: a close of an active auction that fails part-way leaves the auction
\* as it was, active and due, for a later sweep to close.
C19_FailedCloseLeavesActive ==
    [][\A w \in Closers :
          (EndAuctionFails(w) /\ auction.status = "active")
          => auction' = auction /\ Due(auction', now')]_vars

C21_FailureLeavesNothing ==
    [][((\E rq \in RequestBodies : PlaceBidFails(rq, "insert_bid"))
        \/ (\E w \in Closers : EndAuctionFails(w)))
       => (auction' = auction /\ bids' = bids /\ orders' = orders)]_vars

\* C22: bid_count is the number of bids rows: every accepted bid (first,
\* winning, non-winning, buy-now) adds one row and one to bid_count.
C22_BidCountIsRowCount == auction.bid_count = Len(bids)

\* C23: every bids row that carries a max_bid has amount <= max_bid, whatever
\* amount and maxBid the accepted request had.
C23_AmountWithinMaxBid ==
    \A i \in 1..Len(bids) :
        bids[i].max_bid # NULL => bids[i].amount <= bids[i].max_bid

\* C24: while the auction is active its end_time never moves backward: every
\* step that leaves it active leaves end_time where it was or later, and late
\* bids can extend it again and again.
C24_EndTimeNeverBackward ==
    [][(auction.status = "active" /\ auction'.status = "active")
       => auction'.end_time >= auction.end_time]_vars

\* two late bids, each of which moved end_time
C24_Witness ==
    /\ auction.status = "active"
    /\ Len(bids) >= 2
    /\ auction.end_time >= InitialEndTime + 2

\* C25: an active auction has no winner_id and a sold auction has one, in
\* every reachable state; and winner_id is written only by the update that
\* moves the auction out of active.
C25_WinnerWrittenOnClose ==
    /\ [](/\ auction.status = "active" => auction.winner_id = NoUser
          /\ auction.status \in {"sold", "completed"} => auction.winner_id # NoUser)
    /\ [][auction'.winner_id # auction.winner_id
          => (auction.status = "active" /\ auction'.status # "active")]_vars

\* the proxy rule applied to row i of b, from the replayed price and winning
\* row s (winner 0: no bid yet), using only the row's amount and max_bid
ProxyRule(s, b, i) ==
    LET rowMax(k) == IF b[k].max_bid # NULL THEN b[k].max_bid ELSE b[k].amount
    IN  IF s.winner = 0
        THEN [price |-> b[i].amount, winner |-> i]
        ELSE IF rowMax(i) <= rowMax(s.winner)
             THEN [price |-> Min(rowMax(i) + MinBidIncrement, rowMax(s.winner)),
                   winner |-> s.winner]
             ELSE [price |-> Min(rowMax(s.winner) + MinBidIncrement, rowMax(i)),
                   winner |-> i]

\* the first n rows of b replayed in creation order
RECURSIVE ReplayBids(_, _, _)
ReplayBids(start, b, n) ==
    IF n = 0 THEN [price |-> start, winner |-> 0]
    ELSE ProxyRule(ReplayBids(start, b, n - 1), b, n)

\* the winner the database holds: the bidder of the row marked winning while
\* the auction is active, winner_id once it is sold
StoredWinner ==
    IF auction.status = "active"
    THEN IF WinningRows(bids) = {} THEN NoUser
         ELSE bids[MaxOf(WinningRows(bids))].bidder_id
    ELSE auction.winner_id

\* C26: the stored winner and current_price are a function of the bids rows
\* alone: replaying the rows in creation order through the proxy rule gives
\* the stored current_price and the stored winning bidder.
C26_ReplayGivesStored ==
    auction.status \in {"active", "sold", "completed"} =>
        LET r == ReplayBids(auction.starting_price, bids, Len(bids))
        IN  /\ auction.current_price = r.price
            /\ StoredWinner = IF r.winner = 0 THEN NoUser ELSE bids[r.winner].bidder_id

\* C27: after every accepted PlaceBid that is not a buy-now (first or later,
\* with or without maxBid), current_price is at most the max_bid of the bid
\* marked winning.
C27_PriceWithinWinningMax ==
    [][Len(bids') > Len(bids) =>
         \A rq \in RequestBodies :
            (PlaceBid(rq) /\ HandleBid(auction, bids, rq, now).resp.kind = "placed")
            => \A i \in WinningRows(bids') :
                  auction'.current_price <= bids'[i].max_bid]_vars

\* every answer POST /api/bids can give to rq in the current state, with the
\* rows it leaves
Answers(rq) ==
    {HandleBid(auction, bids, rq, now)}
        \cup {FailBid(auction, bids, rq, now, step) : step \in FailingSteps}

\* C28: whenever the handler answers with an error (a 4xx, or 500 'Failed to
\* place bid') no bids row was appended and the auction row (current_price,
\* bid_count, end_time) is unchanged: a bid whose transaction committed is
\* answered with success even when a step after COMMIT fails.
C28_ErrorLeavesNothing ==
    \A rq \in RequestBodies :
        \A out \in Answers(rq) :
            out.resp.status # 200 => (out.auction = auction /\ out.bids = bids)

\* C29: after any sequence of join_auction, leave_auction and disconnect
\* events, from several sockets of one user too, the tracked viewers of each
\* auction are the identities that still have a connected socket joined to
\* its room, and no auction id maps to an empty set.
C29_ViewersAreJoinedIdentities ==
    /\ \A a \in AuctionIds :
          Viewers(auctionRooms, a)
              = {Identity(s) : s \in {x \in connected : <<x, a>> \in rooms}}
    /\ \A a \in DOMAIN auctionRooms : auctionRooms[a] # {}

\* C30: for every auction watch_count is the number of watchlist rows, after
\* any sequence of watch and unwatch operations through the socket events or
\* the REST routes, repeated watch requests of one user included.
C30_WatchCountIsRowCount ==
    \A a \in AuctionIds :
        watch_count[a] = Cardinality({w \in watchlist : w[2] = a})
=============================================================================
